---------------------------- MODULE Spec2Model ----------------------------
(***************************************************************************)
(* A model of textbook_converter.py: the text normaliser clean_text, the   *)
(* extractors extract_pptx and extract_pdf, the assembler                  *)
(* create_textbook_pdf and the driver main.                                *)
(*                                                                         *)
(* A text is a sequence of characters; a character is a one-character      *)
(* string, except the bullet glyph U+2022, written BULLET.  Calls into the *)
(* libraries (python-pptx, PyMuPDF, Pillow, reportlab, the file system)    *)
(* either return or raise: which one is an input of the action that makes  *)
(* the call.                                                               *)
(***************************************************************************)
EXTENDS Integers, Sequences, FiniteSets, TLC

VARIABLES
    pc,         \* where the run is
    cin,        \* clean_text: the text given
    once,       \* clean_text(cin)
    twice,      \* clean_text(clean_text(cin))
    natural,    \* resize: img.size, <<width, height>> in pixels
    rendered,   \* resize: <<width, height>> given to Image(...), fractions
    fmt,        \* main: the uploaded file's kind, "pdf" or "pptx"
    opened,     \* extract_*: whether the container was opened
    nPages,     \* extract_*: len(doc), len(prs.slides)
    pages,      \* extract_*: what each page or slide read so far held
    content,    \* the list of units: extract_*'s result, create_textbook_pdf's input
    files,      \* the paths that exist in img_dir
    writes,     \* the paths opened for writing in img_dir, in order
    messages,   \* what st.error, st.warning and st.success have shown, in order
    called,     \* main: whether create_textbook_pdf has been called
    elements,   \* create_textbook_pdf: the list given to doc.build
    built,      \* create_textbook_pdf: whether doc.build has been called
    artifact    \* create_textbook_pdf's return value: output_path or None

cleanVars == <<cin, once, twice>>
resizeVars == <<natural, rendered>>
extractVars == <<fmt, opened, nPages, pages, files, writes>>
assembleVars == <<called, elements, built, artifact>>
vars == <<pc, cleanVars, resizeVars, extractVars, assembleVars, content, messages>>

---------------------------------------------------------------------------
(* Bounds                                                                  *)

MaxLen == 3        \* longest text given to clean_text on its own
MaxDim == 240      \* largest natural width and height of an image, in pixels
MaxPages == 2      \* most pages or slides of a container, most units of a list
MaxImgs == 2       \* most images of a container

---------------------------------------------------------------------------
(* Characters                                                              *)

BULLET == "bullet"
Whitespace == {" ", "\n", "\t"}
Digits == {"0", "1", "2"}
Uppercase == {"A", "B", "H"}
Lowercase == {"a", "b", "d", "e", "g", "h", "i", "n"}
Terminal == {".", "!", "?"}

\* \s
IsSpace(c) == c \in Whitespace
\* \d
IsDigit(c) == c \in Digits
\* \w
IsWord(c) == c \in Digits \cup Uppercase \cup Lowercase \cup {"_"}

\* str.lower(), one character
LowerChar(c) ==
    CASE c = "A" -> "a"
      [] c = "B" -> "b"
      [] c = "H" -> "h"
      [] OTHER -> c

---------------------------------------------------------------------------
(* clean_text                                                              *)

Range(s) == {s[k] : k \in DOMAIN s}

\* s without its first n characters
Drop(s, n) == SubSeq(s, n + 1, Len(s))

\* the length of the longest prefix of s made of characters of class
RECURSIVE RunLen(_, _)
RunLen(s, class) ==
    IF s # <<>> /\ Head(s) \in class THEN 1 + RunLen(Tail(s), class) ELSE 0

\* re.sub(r'\s+', ' ', text)
RECURSIVE CollapseWhitespace(_)
CollapseWhitespace(s) ==
    IF s = <<>> THEN <<>>
    ELSE IF IsSpace(Head(s))
         THEN <<" ">> \o CollapseWhitespace(Drop(s, RunLen(s, Whitespace)))
         ELSE <<Head(s)>> \o CollapseWhitespace(Tail(s))

\* re.sub(r'BULLET\s*', '\nBULLET ', text)
RECURSIVE FormatBullets(_)
FormatBullets(s) ==
    IF s = <<>> THEN <<>>
    ELSE IF Head(s) = BULLET
         THEN <<"\n", BULLET, " ">>
              \o FormatBullets(Drop(Tail(s), RunLen(Tail(s), Whitespace)))
         ELSE <<Head(s)>> \o FormatBullets(Tail(s))

\* Whether \b(\d+\.)\s+ matches s at position i: a word boundary, the whole
\* run of digits, a period, at least one whitespace character.
NumberAt(s, i) ==
    /\ IsDigit(s[i])
    /\ (i = 1 \/ ~IsWord(s[i - 1]))
    /\ LET d == RunLen(Drop(s, i - 1), Digits)
       IN  /\ i + d + 1 <= Len(s)
           /\ s[i + d] = "."
           /\ IsSpace(s[i + d + 1])

\* re.sub(r'\b(\d+\.)\s+', r'\n\1 ', text), scanning from position i
RECURSIVE NumberedFrom(_, _)
NumberedFrom(s, i) ==
    IF i > Len(s) THEN <<>>
    ELSE IF NumberAt(s, i)
         THEN LET d == RunLen(Drop(s, i - 1), Digits)
                  w == RunLen(Drop(s, i + d), Whitespace)
              IN  <<"\n">> \o SubSeq(s, i, i + d) \o <<" ">>
                  \o NumberedFrom(s, i + d + 1 + w)
         ELSE <<s[i]>> \o NumberedFrom(s, i + 1)

NumberedLists(s) == NumberedFrom(s, 1)

\* re.sub(r'([.!?])([A-Z])', r'\1\n\2', text)
RECURSIVE SentenceBreaks(_)
SentenceBreaks(s) ==
    IF s = <<>> THEN <<>>
    ELSE IF Len(s) >= 2 /\ s[1] \in Terminal /\ s[2] \in Uppercase
         THEN <<s[1], "\n", s[2]>> \o SentenceBreaks(Drop(s, 2))
         ELSE <<Head(s)>> \o SentenceBreaks(Tail(s))

\* str.strip()
RECURSIVE RStrip(_)
RStrip(s) ==
    IF s # <<>> /\ IsSpace(s[Len(s)]) THEN RStrip(SubSeq(s, 1, Len(s) - 1)) ELSE s

Strip(s) == RStrip(Drop(s, RunLen(s, Whitespace)))

clean_text(text) ==
    IF text = <<>> THEN <<>>
    ELSE Strip(SentenceBreaks(NumberedLists(FormatBullets(CollapseWhitespace(text)))))

---------------------------------------------------------------------------
(* The parts of the state a specification does not use keep these values.  *)

None == "None"

IdleClean == cin = <<>> /\ once = <<>> /\ twice = <<>>

IdleResize == natural = <<1, 1>> /\ rendered = <<>>

IdleExtract ==
    /\ fmt = None /\ opened = FALSE /\ nPages = 0 /\ pages = <<>>
    /\ files = {} /\ writes = <<>>

IdleAssemble == called = FALSE /\ elements = <<>> /\ built = FALSE /\ artifact = None

---------------------------------------------------------------------------
(* clean_text on its own: a text is drawn, cleaned, and cleaned again.     *)

CleanAlphabet == {" ", "\n", BULLET, "1", ".", "A", "a", "("}

RECURSIVE TextsUpTo(_, _)
TextsUpTo(alphabet, n) ==
    IF n = 0 THEN {<<>>}
    ELSE LET shorter == TextsUpTo(alphabet, n - 1)
         IN  shorter \cup {Append(t, c) : t \in shorter, c \in alphabet}

CleanTexts == TextsUpTo(CleanAlphabet, MaxLen)

InitClean ==
    /\ pc = "clean"
    /\ cin \in CleanTexts
    /\ once = <<>>
    /\ twice = <<>>
    /\ IdleResize /\ IdleExtract /\ IdleAssemble
    /\ content = <<>> /\ messages = <<>>

CleanOnce ==
    /\ pc = "clean"
    /\ once' = clean_text(cin)
    /\ pc' = "cleaned"
    /\ UNCHANGED <<cin, twice, resizeVars, extractVars, assembleVars, content, messages>>

CleanTwice ==
    /\ pc = "cleaned"
    /\ twice' = clean_text(once)
    /\ pc' = "recleaned"
    /\ UNCHANGED <<cin, once, resizeVars, extractVars, assembleVars, content, messages>>

NextClean == CleanOnce \/ CleanTwice

SpecClean == InitClean /\ [][NextClean]_vars

---------------------------------------------------------------------------
(* The resize step of create_textbook_pdf.  A size is a fraction           *)
(* <<numerator, denominator>> with a positive denominator: Python computes *)
(* these in floating point, the model exactly.                             *)

inch == 72                  \* reportlab.lib.units.inch, in points

Frac(n) == <<n, 1>>
FMul(a, b) == <<a[1] * b[1], a[2] * b[2]>>
FDiv(a, b) == <<a[1] * b[2], a[2] * b[1]>>
FGt(a, b) == a[1] * b[2] > b[1] * a[2]
FLe(a, b) == ~FGt(a, b)
FEq(a, b) == a[1] * b[2] = b[1] * a[2]

max_width == Frac(3 * inch)
max_height == <<5 * inch, 2>>       \* 2.5 * inch

\* ResizeToFit without its second test, "if height > max_height:"
ResizeWidthOnly(size, maxW, maxH) ==
    LET width0 == Frac(size[1])
        height0 == Frac(size[2])
        aspect == FDiv(width0, height0)
        wide == FGt(width0, maxW)
    IN  <<IF wide THEN maxW ELSE width0,
          IF wide THEN FDiv(maxW, aspect) ELSE height0>>

\* width, height = img.size ... Image(img_path, width=width, height=height),
\* for the bounding box maxW x maxH
ResizeToFit(size, maxW, maxH) ==
    LET width0 == Frac(size[1])
        height0 == Frac(size[2])
        aspect == FDiv(width0, height0)
        wide == FGt(width0, maxW)
        height1 == IF wide THEN FDiv(maxW, aspect) ELSE height0
        width1 == IF wide THEN maxW ELSE width0
        tall == FGt(height1, maxH)
        width2 == IF tall THEN FMul(maxH, aspect) ELSE width1
        height2 == IF tall THEN maxH ELSE height1
    IN  <<width2, height2>>

InitResize ==
    /\ pc = "resize"
    /\ natural \in (1..MaxDim) \X (1..MaxDim)
    /\ rendered = <<>>
    /\ IdleClean /\ IdleExtract /\ IdleAssemble
    /\ content = <<>> /\ messages = <<>>

Resize ==
    /\ pc = "resize"
    /\ rendered' = ResizeToFit(natural, max_width, max_height)
    /\ pc' = "resized"
    /\ UNCHANGED <<natural, cleanVars, extractVars, assembleVars, content, messages>>

NextResize == Resize

SpecResize == InitResize /\ [][NextResize]_vars

---------------------------------------------------------------------------
(* Messages and paths                                                      *)

\* st.error(...), st.warning(...), st.success(...); unit is the page or slide
\* number the text names, 0 when it names none
Msg(level, text, unit) == [level |-> level, text |-> text, unit |-> unit]

\* img_dir / f"page_{page_number}_img_{img_index}.{img_ext}"
PagePath(page_number, img_index, img_ext) == <<"page", page_number, img_index, img_ext>>

\* img_dir / f"slide_{slide_number}_img_{img_count}.{img_ext}"
SlidePath(slide_number, img_count, img_ext) == <<"slide", slide_number, img_count, img_ext>>

---------------------------------------------------------------------------
(* What a container can hold                                               *)

minImageBytes == 20 * 1024

\* the texts of a page or slide
PageTexts == {<<>>, <<" ", "\n">>, <<"a", ".", "A">>}

\* An embedded image: extracting it raises ("fails"), or it yields bytes
\* that PILImage.open rejects ("invalid") or accepts ("valid").  The ones
\* drawn: one that fails, a JPEG2000 just below minImageBytes that is
\* invalid, one that is valid, and a valid PNG of minImageBytes.
Embedded(kind, bytes, ext) == [kind |-> kind, bytes |-> bytes, ext |-> ext]
NoImage == Embedded("fails", 0, None)
EmbeddedImages ==
    {NoImage,
     Embedded("invalid", minImageBytes - 1, "jp2"),
     Embedded("valid", minImageBytes - 1, "jp2"),
     Embedded("valid", minImageBytes, "png")}

RECURSIVE ImageLists(_)
ImageLists(n) ==
    IF n = 0 THEN {<<>>}
    ELSE LET shorter == ImageLists(n - 1)
         IN  shorter \cup {Append(l, img) : l \in shorter, img \in EmbeddedImages}

\* the lists of at most MaxImgs images
AllImageLists == ImageLists(MaxImgs)

\* the lists of at most n images
ImageListsUpTo(n) == {l \in AllImageLists : Len(l) <= n}

RECURSIVE SumLen(_)
SumLen(seqs) == IF seqs = <<>> THEN 0 ELSE Len(Head(seqs)) + SumLen(Tail(seqs))

---------------------------------------------------------------------------
(* extract_pdf and extract_pptx                                            *)

\* The state of one page's or slide's image loop: the unit's image list,
\* the scratch directory, the writes made, the warnings shown, the images
\* seen with the path each was written to, and extract_pptx's img_count.
LoopStart(fs, ws) ==
    [images |-> <<>>, files |-> fs, writes |-> ws, warnings |-> <<>>,
     seen |-> <<>>, img_count |-> 0]

Seen(st, img, path) == [st EXCEPT !.seen = Append(@, [img |-> img, path |-> path])]

\* with open(img_path, "wb") ... PILImage.open(img_path) ... os.remove(img_path)
WriteAndValidate(st, img, img_path, warning) ==
    LET written == [Seen(st, img, img_path) EXCEPT
                        !.files = @ \cup {img_path},
                        !.writes = Append(@, img_path)]
    IN  IF img.kind = "valid"
        THEN [written EXCEPT !.images = Append(@, img_path)]
        ELSE [written EXCEPT !.warnings = Append(@, warning),
                             !.files = @ \ {img_path}]

\* PdfImage with a size filter before the write: an image of fewer than
\* minImageBytes bytes is skipped
PdfImageFiltered(st, page_number, img_index, img) ==
    IF img.kind = "fails"
    THEN [Seen(st, img, None) EXCEPT
              !.warnings = Append(@, Msg("warning", "Image extraction failed", 0))]
    ELSE IF img.bytes < minImageBytes
    THEN Seen(st, img, None)
    ELSE LET img_ext == IF img.ext = "jp2" THEN "jpeg" ELSE img.ext
         IN  WriteAndValidate(st, img, PagePath(page_number, img_index, img_ext),
                 Msg("warning", "Skipped invalid image on page", page_number + 1))

\* extract_pdf, one turn of "for img_index, img in enumerate(img_list)"
PdfImage(st, page_number, img_index, img) ==
    IF img.kind = "fails"
    THEN [Seen(st, img, None) EXCEPT
              !.warnings = Append(@, Msg("warning", "Image extraction failed", 0))]
    ELSE LET img_ext == IF img.ext = "jp2" THEN "jpeg" ELSE img.ext
         IN  WriteAndValidate(st, img, PagePath(page_number, img_index, img_ext),
                 Msg("warning", "Skipped invalid image on page", page_number + 1))

RECURSIVE PdfImages(_, _, _, _)
PdfImages(st, page_number, img_index, img_list) ==
    IF img_index >= Len(img_list) THEN st
    ELSE PdfImages(PdfImage(st, page_number, img_index, img_list[img_index + 1]),
                   page_number, img_index + 1, img_list)

\* extract_pptx, one turn of "for shape in slide.shapes" over a picture
PptxImage(st, slide_number, img) ==
    IF img.kind = "fails"
    THEN [Seen(st, img, None) EXCEPT
              !.warnings = Append(@, Msg("warning", "Failed to extract image", 0))]
    ELSE LET done == WriteAndValidate(st, img,
                         SlidePath(slide_number, st.img_count, img.ext),
                         Msg("warning", "Skipped invalid image in slide", slide_number + 1))
         IN  IF img.kind = "valid" THEN [done EXCEPT !.img_count = @ + 1] ELSE done

RECURSIVE PptxImages(_, _, _)
PptxImages(st, slide_number, shapes) ==
    IF shapes = <<>> THEN st
    ELSE PptxImages(PptxImage(st, slide_number, Head(shapes)), slide_number, Tail(shapes))

Unit(text, images) == [text |-> text, images |-> images]

\* OpenFailure without its st.error(...)
OpenFailureSilent(kind) == [content |-> <<>>, shown |-> <<>>]

\* "except Exception as e:" of the open: st.error(...) and "return []"
OpenFailure(kind) ==
    [content |-> <<>>,
     shown |-> <<Msg("error", IF kind = "pdf" THEN "Failed to open PDF file"
                              ELSE "Failed to open PPTX file", 0)>>]

\* prs = Presentation(pptx_path), doc = fitz.open(pdf_path)
OpenContainer ==
    /\ pc = "open"
    /\ \E ok \in BOOLEAN, n \in 0..MaxPages :
          IF ok
          THEN /\ opened' = TRUE
               /\ nPages' = n
               /\ content' = <<>>
               /\ pc' = "extract"
               /\ UNCHANGED messages
          ELSE /\ n = 0
               /\ content' = OpenFailure(fmt).content
               /\ messages' = messages \o OpenFailure(fmt).shown
               /\ pc' = "return"
               /\ UNCHANGED <<opened, nPages>>
    /\ UNCHANGED <<fmt, pages, files, writes, cleanVars, resizeVars, assembleVars>>

\* extract_pdf, one turn of "for page_number in range(len(doc))"
ExtractPdfPage ==
    /\ pc = "extract" /\ fmt = "pdf" /\ Len(content) < nPages
    /\ \E textRaises \in BOOLEAN, listRaises \in BOOLEAN :
       \E text \in IF textRaises THEN {<<>>} ELSE PageTexts :
       \E img_list \in IF listRaises THEN {<<>>} ELSE ImageListsUpTo(MaxImgs - SumLen(pages)) :
          LET page_number == Len(content)
              st == PdfImages(LoopStart(files, writes), page_number, 0, img_list)
              textWarning ==
                  IF textRaises
                  THEN <<Msg("warning", "Text extraction failed on page", page_number + 1)>>
                  ELSE <<>>
              listWarning ==
                  IF listRaises
                  THEN <<Msg("warning", "Image extraction failed on page", page_number + 1)>>
                  ELSE <<>>
          IN  /\ content' = Append(content, Unit(clean_text(text), st.images))
              /\ files' = st.files
              /\ writes' = st.writes
              /\ pages' = Append(pages, st.seen)
              /\ messages' = messages \o textWarning \o st.warnings \o listWarning
    /\ UNCHANGED <<pc, fmt, opened, nPages, cleanVars, resizeVars, assembleVars>>

\* extract_pptx, one turn of "for slide_number, slide in enumerate(prs.slides)";
\* the text loop has no handler, and what it raises reaches main's.
ExtractPptxSlide ==
    /\ pc = "extract" /\ fmt = "pptx" /\ Len(content) < nPages
    /\ \E textRaises \in BOOLEAN :
       \E text \in IF textRaises THEN {<<>>} ELSE PageTexts :
       \E shapes \in IF textRaises THEN {<<>>} ELSE ImageListsUpTo(MaxImgs - SumLen(pages)) :
          LET slide_number == Len(content)
              st == PptxImages(LoopStart(files, writes), slide_number, shapes)
          IN  IF textRaises
              THEN /\ messages' = Append(messages, Msg("error", "Error processing file", 0))
                   /\ pc' = "done"
                   /\ UNCHANGED <<content, files, writes, pages>>
              ELSE /\ content' = Append(content, Unit(clean_text(text), st.images))
                   /\ files' = st.files
                   /\ writes' = st.writes
                   /\ pages' = Append(pages, st.seen)
                   /\ messages' = messages \o st.warnings
                   /\ pc' = pc
    /\ UNCHANGED <<fmt, opened, nPages, cleanVars, resizeVars, assembleVars>>

---------------------------------------------------------------------------
(* create_textbook_pdf                                                     *)

headWindow == 20            \* item['text'].lower()[:20]
HEADING == <<"h", "e", "a", "d", "i", "n", "g">>

\* the flowables: Paragraph, Spacer, PageBreak, Image.  unit is 0 on the
\* title page and i + 1 in the turn of the loop for content[i].
Element(kind, unit, style, text, path, size) ==
    [kind |-> kind, unit |-> unit, style |-> style, text |-> text,
     path |-> path, size |-> size]
Paragraph(unit, text, style) == Element("Paragraph", unit, style, text, None, <<>>)
Spacer(unit) == Element("Spacer", unit, None, <<>>, None, <<>>)
PageBreak(unit) == Element("PageBreak", unit, None, <<>>, None, <<>>)
Image(unit, img_path, size) == Element("Image", unit, None, <<>>, img_path, size)

\* str.lower()
Lower(s) == [k \in 1..Len(s) |-> LowerChar(s[k])]

\* word in s
Contains(s, word) ==
    \E k \in 1..(Len(s) - Len(word) + 1) : SubSeq(s, k, k + Len(word) - 1) = word

\* str.split('\n')
RECURSIVE Split(_)
Split(s) ==
    LET n == RunLen(s, Range(s) \ {"\n"})
    IN  IF n = Len(s) THEN <<s>>
        ELSE <<SubSeq(s, 1, n)>> \o Split(Drop(s, n + 1))

\* "Course Materials Textbook", "Generated from Lecture Materials"
TitlePage ==
    <<Paragraph(0, <<"title">>, "Heading1"), Spacer(0),
      Paragraph(0, <<"subtitle">>, "Textbook"), PageBreak(0)>>

RECURSIVE Paragraphs(_, _)
Paragraphs(unit, text_paragraphs) ==
    IF text_paragraphs = <<>> THEN <<>>
    ELSE (IF Strip(Head(text_paragraphs)) # <<>>
          THEN <<Paragraph(unit, Head(text_paragraphs), "Textbook")>>
          ELSE <<>>)
         \o Paragraphs(unit, Tail(text_paragraphs))

\* "if item.get('text'):" and what it guards
TextElements(unit, text) ==
    IF text = <<>> THEN <<>>
    ELSE IF Contains(SubSeq(Lower(text), 1, IF Len(text) < headWindow THEN Len(text) ELSE headWindow), HEADING)
         THEN <<Paragraph(unit, text, "Heading2"), Spacer(unit)>>
         ELSE Paragraphs(unit, Split(text))

\* "for img_path in item['images']:", one turn; size is <<>> when
\* PILImage.open or Image(...) raises, and img.size otherwise.  The caption
\* is f"Figure {i+1}: Relevant diagram": its number is the element's unit.
ImageElements(unit, img_path, size) ==
    <<Spacer(unit)>>
    \o (IF size = <<>> THEN <<>>
        ELSE <<Image(unit, img_path, ResizeToFit(size, max_width, max_height)),
               Paragraph(unit, <<"Figure">>, "Caption"),
               Spacer(unit)>>)

RECURSIVE ImagesElements(_, _, _, _)
ImagesElements(unit, images, sizes, j) ==
    IF j > Len(images) THEN <<>>
    ELSE ImageElements(unit, images[j], sizes[<<unit, j>>])
         \o ImagesElements(unit, images, sizes, j + 1)

\* UnitElements with "if i >= 0:" for "if i > 0:"
UnitElementsBreakAlways(unit, item, sizes) ==
    (IF unit - 1 >= 0 THEN <<PageBreak(unit)>> ELSE <<>>)
    \o TextElements(unit, item.text)
    \o ImagesElements(unit, item.images, sizes, 1)

\* "for i, item in enumerate(content):", one turn, i = unit - 1
UnitElements(unit, item, sizes) ==
    (IF unit - 1 > 0 THEN <<PageBreak(unit)>> ELSE <<>>)
    \o TextElements(unit, item.text)
    \o ImagesElements(unit, item.images, sizes, 1)

RECURSIVE ContentElements(_, _, _)
ContentElements(units, sizes, unit) ==
    IF unit > Len(units) THEN <<>>
    ELSE UnitElements(unit, units[unit], sizes) \o ContentElements(units, sizes, unit + 1)

\* the images of a list of units, each named by <<unit, place in the unit>>
ImageSlots(units) ==
    UNION {{<<u, j>> : j \in DOMAIN units[u].images} : u \in DOMAIN units}

\* st.warning(f"Couldn't process image: ..."), from image j of unit u on
RECURSIVE ImageWarnings(_, _, _, _)
ImageWarnings(units, sizes, u, j) ==
    IF u > Len(units) THEN <<>>
    ELSE IF j > Len(units[u].images) THEN ImageWarnings(units, sizes, u + 1, 1)
    ELSE (IF sizes[<<u, j>>] = <<>>
          THEN <<Msg("warning", "Couldn't process image", u)>>
          ELSE <<>>)
         \o ImageWarnings(units, sizes, u, j + 1)

output_path == "textbook_output.pdf"

\* What the library calls of one run of create_textbook_pdf do: all return
\* ("ok"), or create_styles, SimpleDocTemplate, the page layout or
\* doc.build raises.
Outcomes == {"ok", "styles", "setup", "layout", "build"}

\* img.size of the images that open
NaturalSizes == {<<800, 400>>}

Returned(path, elems, isBuilt, shown) ==
    [artifact |-> path, elements |-> elems, built |-> isBuilt, shown |-> shown]

\* "if not content:" and what it guards
Rejected == Returned(None, <<>>, FALSE, <<Msg("error", "No content to generate PDF", 0)>>)

\* from "styles = create_styles()" to the end of create_textbook_pdf
Assemble(units, did, sizes) ==
    CASE did = "styles" ->
           Returned(None, <<>>, FALSE, <<Msg("error", "Failed to create PDF styles", 0)>>)
      [] did = "setup" ->
           Returned(None, <<>>, FALSE, <<Msg("error", "PDF setup failed", 0)>>)
      [] did = "layout" ->
           Returned(None, <<>>, FALSE, <<Msg("error", "Failed to create page layout", 0)>>)
      [] did = "build" ->
           Returned(None, TitlePage \o ContentElements(units, sizes, 1), TRUE,
                    ImageWarnings(units, sizes, 1, 1)
                    \o <<Msg("error", "PDF generation failed", 0)>>)
      [] OTHER ->
           Returned(output_path, TitlePage \o ContentElements(units, sizes, 1), TRUE,
                    ImageWarnings(units, sizes, 1, 1))

\* NoContent without its all(...)
NoContentListOnly(units) == units = <<>>

\* not content or all(len(item.get('text', '')) == 0 and
\*                    len(item.get('images', [])) == 0 for item in content)
NoContent(units) ==
    \/ units = <<>>
    \/ \A k \in DOMAIN units : Len(units[k].text) = 0 /\ Len(units[k].images) = 0

\* create_textbook_pdf with main's check for its "if not content:"
CreateRejectingEmptyUnits(units, did, sizes) ==
    IF units = <<>> \/ \A k \in DOMAIN units : units[k].text = <<>> /\ units[k].images = <<>>
    THEN Rejected
    ELSE Assemble(units, did, sizes)

create_textbook_pdf(units, did, sizes) ==
    IF units = <<>> THEN Rejected ELSE Assemble(units, did, sizes)

---------------------------------------------------------------------------
(* main                                                                    *)

\* "if uploaded_file is not None:" to "img_dir.mkdir(exist_ok=True)"
Upload ==
    /\ pc = "upload"
    /\ \E kind \in {"pdf", "pptx"}, tooLarge \in BOOLEAN, saved \in BOOLEAN :
          IF tooLarge
          THEN /\ messages' = Append(messages, Msg("error", "File size exceeds 50MB limit", 0))
               /\ pc' = "done"
               /\ fmt' = fmt
          ELSE IF ~saved
          THEN /\ messages' = Append(messages, Msg("error", "Failed to save file", 0))
               /\ pc' = "done"
               /\ fmt' = fmt
          ELSE /\ fmt' = kind
               /\ pc' = "open"
               /\ UNCHANGED messages
    /\ UNCHANGED <<opened, nPages, pages, files, writes, content,
                   cleanVars, resizeVars, assembleVars>>

\* whether extract_* is at a return: "return []" after the container failed
\* to open, "return content" after the last page or slide
AtReturn == pc = "return" \/ (pc = "extract" /\ Len(content) = nPages)

\* from "content = extract_*(input_path, img_dir)" receiving the list to
\* "return" after "No extractable content found in the file"
CheckContent ==
    /\ AtReturn
    /\ NoContent(content)
    /\ messages' = Append(messages,
           Msg("error", "No extractable content found in the file", 0))
    /\ pc' = "done"
    /\ UNCHANGED <<cleanVars, resizeVars, extractVars, assembleVars, content>>

\* from "content = extract_*(input_path, img_dir)" receiving the list, past
\* the check, to the end of "if create_textbook_pdf(content, output_path):".
\* The images of content were opened by PILImage.open when they were
\* extracted, in this run and from the same files: they open again.
Generate ==
    /\ AtReturn
    /\ ~NoContent(content)
    /\ \E did \in Outcomes :
       \E sizes \in [ImageSlots(content) -> NaturalSizes] :
          LET r == create_textbook_pdf(content, did, sizes)
          IN  /\ called' = TRUE
              /\ elements' = r.elements
              /\ built' = r.built
              /\ artifact' = r.artifact
              /\ messages' = messages \o r.shown
                     \o (IF r.artifact # None
                         THEN <<Msg("success", "Textbook generated successfully!", 0)>>
                         ELSE <<>>)
    /\ pc' = "done"
    /\ UNCHANGED <<cleanVars, resizeVars, extractVars, content>>

Init ==
    /\ pc = "upload"
    /\ IdleClean /\ IdleResize /\ IdleExtract /\ IdleAssemble
    /\ content = <<>> /\ messages = <<>>

Next ==
    \/ Upload
    \/ OpenContainer
    \/ ExtractPdfPage
    \/ ExtractPptxSlide
    \/ CheckContent
    \/ Generate

Spec == Init /\ [][Next]_vars

---------------------------------------------------------------------------
(* create_textbook_pdf on its own: a list of units is drawn and passed.    *)

LateHeading == [k \in 1..headWindow |-> "a"] \o HEADING

UnitTexts ==
    {<<>>, <<" ">>, <<"a", ".", "\n", "A">>, <<"H", "e", "a", "d", "i", "n", "g">>,
     LateHeading}

\* the units at place u of a list that hold k images
UnitsWith(u, k) ==
    {Unit(t, [j \in 1..k |-> PagePath(u - 1, j - 1, "png")]) : t \in UnitTexts}

\* the lists of n units that hold at most budget images
RECURSIVE UnitLists(_, _)
UnitLists(n, budget) ==
    IF n = 0 THEN {<<>>}
    ELSE UNION {{Append(l, x) : l \in UnitLists(n - 1, budget - k), x \in UnitsWith(n, k)}
                : k \in 0..budget}

AllUnitLists == UNION {UnitLists(n, MaxImgs) : n \in 0..MaxPages}

InitAssemble ==
    /\ pc = "call"
    /\ content \in AllUnitLists
    /\ messages = <<>>
    /\ IdleClean /\ IdleResize /\ IdleExtract /\ IdleAssemble

CallCreate ==
    /\ pc = "call"
    /\ \E did \in Outcomes :
       \E sizes \in [ImageSlots(content) -> NaturalSizes \cup {<<>>}] :
          LET r == create_textbook_pdf(content, did, sizes)
          IN  /\ called' = TRUE
              /\ elements' = r.elements
              /\ built' = r.built
              /\ artifact' = r.artifact
              /\ messages' = messages \o r.shown
    /\ pc' = "returned"
    /\ UNCHANGED <<cleanVars, resizeVars, extractVars, content>>

NextAssemble == CallCreate

SpecAssemble == InitAssemble /\ [][NextAssemble]_vars

---------------------------------------------------------------------------
(* Properties                                                              *)

Shown(text) == \E k \in DOMAIN messages : messages[k].text = text
LastShown == IF messages = <<>> THEN None ELSE messages[Len(messages)].text

\* every unit of the list has empty text and no images
AllUnitsEmpty(units) ==
    \A k \in DOMAIN units : units[k].text = <<>> /\ units[k].images = <<>>

PageBreaksOf(es, unit) == {k \in DOMAIN es : es[k].kind = "PageBreak" /\ es[k].unit = unit}
PageBreakCount(es) == Cardinality({k \in DOMAIN es : es[k].kind = "PageBreak"})

\* the elements of the loop's turns come in the order of the units
InUnitOrder(es) == \A j, k \in DOMAIN es : j < k => es[j].unit <= es[k].unit

\* C1, as claimed: the list given to doc.build for N >= 1 units holds exactly
\* N - 1 page breaks, and its elements come in the order of the units.
C1_PageBreaksNMinusOne ==
    (built /\ Len(content) >= 1) =>
        /\ PageBreakCount(elements) = Len(content) - 1
        /\ InUnitOrder(elements)

\* C1, amended: the list given to doc.build for N >= 1 units holds N page
\* breaks: the one that ends the title page, and one at the head of each
\* unit but the first (N - 1 between units, none within a unit); and its
\* elements come in the order of the units.
C1_PageBreaksBetweenUnits ==
    (built /\ Len(content) >= 1) =>
        /\ PageBreakCount(elements) = Len(content)
        /\ PageBreaksOf(elements, 0) = {Len(TitlePage)}
        /\ PageBreaksOf(elements, 1) = {}
        /\ \A u \in 2..Len(content) :
              /\ Cardinality(PageBreaksOf(elements, u)) = 1
              /\ \A b \in PageBreaksOf(elements, u) : elements[b - 1].unit < u
        /\ \A k \in DOMAIN elements : elements[k].unit \in 0..Len(content)
        /\ InUnitOrder(elements)

\* a document of two units or more was built, with a paragraph of the first
\* unit and an image of a later one
C1_Witness ==
    /\ pc = "returned" /\ built /\ Len(content) >= 2
    /\ \E k \in DOMAIN elements : elements[k].kind = "Paragraph" /\ elements[k].unit = 1
    /\ \E k \in DOMAIN elements : elements[k].kind = "Image" /\ elements[k].unit >= 2

\* C2: clean_text is idempotent: cleaning a cleaned text changes nothing.
C2_CleanTextIdempotent == pc = "recleaned" => twice = once

\* C3: the size the resize step computes fits the bounding box, keeps the
\* image's aspect ratio, and is the natural size when that fits; 800 x 400
\* in a box of 300 x 300 gives 300 x 150.
C3_ResizeFitsAndKeepsAspect ==
    /\ pc = "resized" =>
          /\ FLe(rendered[1], max_width)
          /\ FLe(rendered[2], max_height)
          /\ FEq(FMul(rendered[1], Frac(natural[2])), FMul(rendered[2], Frac(natural[1])))
          /\ (FLe(Frac(natural[1]), max_width) /\ FLe(Frac(natural[2]), max_height)) =>
                 rendered = <<Frac(natural[1]), Frac(natural[2])>>
    /\ LET r == ResizeToFit(<<800, 400>>, Frac(300), Frac(300))
       IN  FEq(r[1], Frac(300)) /\ FEq(r[2], Frac(150))

\* an image wider than the box whose height, once the width is bound, is
\* still over the box's: both tests of the resize step have acted
C3_Witness ==
    /\ pc = "resized"
    /\ FGt(Frac(natural[1]), max_width)
    /\ FEq(rendered[2], max_height)
    /\ ~FEq(rendered[1], max_width)

\* extract_* has returned to main, and main has gone on to its end
RunEndedPastExtraction ==
    pc = "done" /\ fmt # None /\ ~Shown("Error processing file")

\* C4: when extraction returns no unit, or only units of empty text and no
\* images, the run ends with an error, create_textbook_pdf is never called
\* and there is no artifact; when some unit has text or an image,
\* create_textbook_pdf is called.
C4_EmptyContentGuard ==
    /\ called => ~AllUnitsEmpty(content)
    /\ (RunEndedPastExtraction /\ AllUnitsEmpty(content)) =>
          /\ ~called /\ ~built /\ artifact = None
          /\ LastShown = "No extractable content found in the file"
          /\ messages[Len(messages)].level = "error"
    /\ (RunEndedPastExtraction /\ ~AllUnitsEmpty(content)) => called

\* a run over a container of one page or more, all of them empty, has ended
C4_Witness ==
    /\ RunEndedPastExtraction /\ opened
    /\ Len(content) >= 1 /\ AllUnitsEmpty(content)
    /\ ~called

\* C5: extraction yields one unit per page or slide whatever fails on a
\* page: no failure of a page's text or of an image reaches main, and once
\* the container is open the run ends with as many units as pages.
C5_OneUnitPerPage ==
    /\ ~Shown("Error processing file")
    /\ (pc = "done" /\ opened) => Len(content) = nPages

\* C6: no path of the scratch directory is written twice.
C6_EachPathWrittenOnce ==
    \A j, k \in DOMAIN writes : j # k => writes[j] # writes[k]

\* the paths of the images of a page that PILImage.open accepted, in order
RECURSIVE ValidPaths(_)
ValidPaths(seen) ==
    IF seen = <<>> THEN <<>>
    ELSE (IF Head(seen).img.kind = "valid" THEN <<Head(seen).path>> ELSE <<>>)
         \o ValidPaths(Tail(seen))

\* C7: each unit lists exactly the paths of its images that passed
\* validation, in order; every path listed exists; the file of an image
\* that failed validation is gone, and no unit lists its path.
C7_ListsAreTheValidImages ==
    \A u \in DOMAIN pages :
        /\ content[u].images = ValidPaths(pages[u])
        /\ Range(content[u].images) \subseteq files
        /\ \A k \in DOMAIN pages[u] :
              pages[u][k].img.kind = "invalid" =>
                 /\ pages[u][k].path \notin files
                 /\ \A v \in DOMAIN content : pages[u][k].path \notin Range(content[v].images)

\* C8, as claimed: create_textbook_pdf fails, and builds no document, for
\* every list whose units all have empty text and no images, the empty list
\* and the others.
C8_FailsWithoutUsableUnit ==
    (pc = "returned" /\ AllUnitsEmpty(content)) => artifact = None /\ ~built

\* the elements of a list of n units of empty text and no images
BareDocument(n) == TitlePage \o [k \in 1..(n - 1) |-> PageBreak(k + 1)]

\* C8, amended: create_textbook_pdf fails, and builds no document, for the
\* empty list.  A list of one or more units, all of empty text and no
\* images, is not refused: no "No content" error is shown, and unless a
\* library call raises, a document of the title page and the page breaks
\* between units is built and the artifact returned.
C8_FailsOnlyOnEmptyList ==
    /\ (pc = "returned" /\ content = <<>>) =>
          /\ artifact = None /\ ~built /\ elements = <<>>
          /\ LastShown = "No content to generate PDF"
    /\ (pc = "returned" /\ content # <<>> /\ AllUnitsEmpty(content)) =>
          /\ ~Shown("No content to generate PDF")
          /\ (messages = <<>>) <=> (artifact = output_path)
          /\ artifact = output_path => built
          /\ built => elements = BareDocument(Len(content))

\* a list of two empty units was passed, and the artifact returned
C8_Witness ==
    /\ pc = "returned" /\ Len(content) >= 2 /\ AllUnitsEmpty(content)
    /\ artifact = output_path /\ built

\* the container failed to open, and the run is past that
OpenFailed == fmt # None /\ ~opened /\ pc \in {"return", "done"}

OpenError == IF fmt = "pdf" THEN "Failed to open PDF file" ELSE "Failed to open PPTX file"

\* C9, as claimed: when the container fails to open, what main receives is
\* not what it receives for an opened container of zero units (the empty
\* list), and the run ends with the open error, with no artifact.
C9_OpenFailureDistinguished ==
    /\ OpenFailed => content # <<>>
    /\ (OpenFailed /\ pc = "done") =>
          /\ LastShown = OpenError
          /\ ~called /\ artifact = None

\* C9, amended: when the container fails to open, extract_* shows the open
\* error and returns the empty list, which is what it returns for an opened
\* container of zero units; the run then ends with the "No extractable
\* content" error, create_textbook_pdf is not called and there is no
\* artifact.
C9_OpenFailureReturnsEmpty ==
    /\ OpenFailed =>
          /\ content = <<>>
          /\ messages # <<>>
          /\ Head(messages) = Msg("error", OpenError, 0)
          /\ ~called /\ ~built /\ artifact = None
    /\ (OpenFailed /\ pc = "done") =>
          messages = <<Msg("error", OpenError, 0),
                       Msg("error", "No extractable content found in the file", 0)>>
    /\ (pc = "done" /\ opened /\ nPages = 0) =>
          /\ content = <<>>
          /\ messages = <<Msg("error", "No extractable content found in the file", 0)>>

\* a PDF failed to open and the run has ended
C9_Witness == OpenFailed /\ pc = "done" /\ fmt = "pdf"

===========================================================================
